---- MODULE Spec2Model ----
(***************************************************************************)
(* A model of the LoRaWAN network-server core of loraserver:               *)
(*   - Server.Start / Server.Stop and the three stream handlers            *)
(*     (internal/loraserver/loraserver.go), one goroutine per item;        *)
(*   - handleRXPacket's dispatch, the Join and Data-Uplink processors and  *)
(*     the Session / Queue stores they use;                                *)
(*   - the JSON-RPC session API (API.CreateNodeSession and friends).       *)
(* Each goroutine is a small program counter; every action is one atomic   *)
(* step of one goroutine (a synchronisation operation or one store /       *)
(* backend round trip together with the local computation around it).     *)
(***************************************************************************)
EXTENDS Integers, Sequences, FiniteSets, Bags, TLC

VARIABLES
    started,    \* Server.Start has run
    hpc,        \* handler goroutine -> "new" | "spawned" | "loop" | "wait" | "done"
    swg,        \* counter of Server.wg
    hwg,        \* handler -> counter of that handler's local wg
    closed,     \* handler -> its backend's stream has been closed
    stop,       \* the goroutine running Server.Stop
    wk,         \* handler -> slot -> the per-item worker goroutine in that slot
    used,       \* handler -> number of items its stream has produced so far
    quota,      \* handler -> number of items its stream produces in this run
    sessions,   \* Session Store: DevAddr -> NodeSession | None
    devIndex,   \* Session Store: DevEUI -> DevAddr of its session | NoAddr
    txQueue,    \* Queue Store: DevEUI -> sequence of TXPayload
    macQueue,   \* Queue Store: DevEUI -> sequence of MACPayload
    appOut,     \* bag of the payloads handed to the application backend
    ctrlOut,    \* bag of the MAC commands handed to the network-controller backend
    gwOut,      \* bag of the join-accepts handed to the gateway backend
    nodes,      \* registry: DevEUI -> Node | None
    apps,       \* registry: the AppEUIs that exist
    api         \* the last JSON-RPC call and its result

vars == <<started, hpc, swg, hwg, closed, stop, wk, used, quota, sessions,
          devIndex, txQueue, macQueue, appOut, ctrlOut, gwOut, nodes, apps, api>>

----------------------------------------------------------------------------
(* Bounds of the model. *)

MaxWorkers == 2     \* worker goroutines alive at once per stream
MaxFCnt == 2        \* largest frame counter in the traffic
NumNwkIDs == 2      \* network identifiers 0 .. NumNwkIDs-1
AddrsPerNwk == 2    \* dynamic addresses per network identifier
SupRX == 1          \* radio frames produced in the supervisor runs
SupTX == 1          \* application payloads produced in the supervisor runs
SupMAC == 1         \* MAC payloads produced in the supervisor runs
UpRX == 3           \* radio frames produced in the uplink runs
SeqRX == 4          \* radio frames produced in the sequential runs
SeqCalls == 1       \* JSON-RPC session calls made in the sequential runs
ApiRX == 1          \* radio frames produced in the session-API runs
ApiCalls == 2       \* JSON-RPC session calls made in the session-API runs
MaxTextLen == 2     \* longest identity or key text a request carries
QueueTX == 2        \* application payloads produced in the queue runs
QueueMAC == 2       \* MAC commands produced in the queue runs
QueueCalls == 1     \* NodeAPI calls made in the queue runs
TextCalls == 1      \* NodeAPI calls made in a request-text run
NodeCalls == 2      \* NodeAPI calls made in the registry runs
MaxLimit == 2       \* largest limit and offset of a list request

----------------------------------------------------------------------------
(* Values. *)

None == [none |-> TRUE]
NoAddr == -1

Handlers == {"rx", "tx", "mac"}
Slots == 1 .. MaxWorkers

\* ctx.NetID, the configured network identifier.
ServerNetID == 3

DevAddrs == 0 .. (NumNwkIDs * AddrsPerNwk - 1)
DevEUIs == {"E1", "E2"}
AppEUIs == {"A1", "A2"}

\* lorawan.DevAddr.NwkID(): the network-identifier bits are the high bits.
NwkID(devAddr) == devAddr \div AddrsPerNwk

\* lorawan.NetID.NwkID(): the low bits of the NetID.
NetIDNwkID(netID) == netID % NumNwkIDs

MTypes == {"JoinRequest", "JoinAccept", "UnconfirmedDataUp", "UnconfirmedDataDown",
           "ConfirmedDataUp", "ConfirmedDataDown", "RFU", "Proprietary"}

\* Keys are <<kind, material, nonce>>.
RootKey(k) == <<"root", k, 0>>
NwkSKey(appKey, devNonce) == <<"nwk", appKey[2], devNonce>>
AppSKey(appKey, devNonce) == <<"app", appKey[2], devNonce>>

\* AES: a payload encrypted under k decrypts to its data under k only.
Encrypt(k, data) == [key |-> k, data |-> data]
Decrypt(k, payload) == IF payload.key = k THEN payload.data ELSE "garbled"

----------------------------------------------------------------------------
(* Registry records, sessions, frames and queue items. *)

\* A *int64: nil, or a pointer to n.
Nil == [nil |-> TRUE]
Ptr(n) == [val |-> n]

\* models.Node as NodeAPI.Create builds it.
ModelsNode(devEUI, appEUI, appKey, rxDelay, rx1DROffset, channelListID) ==
    [devEUI |-> devEUI, appEUI |-> appEUI, appKey |-> appKey,
     rxDelay |-> rxDelay, rx1DROffset |-> rx1DROffset,
     channelListID |-> channelListID]

\* A node provisioned with the zero values of the radio parameters.
Node(devEUI, appEUI, appKey) == ModelsNode(devEUI, appEUI, appKey, 0, 0, Nil)

\* The NodeSession the Join Processor creates: derived keys, counters at zero.
NewSession(devAddr, node, devNonce) ==
    [devAddr |-> devAddr, devEUI |-> node.devEUI, appEUI |-> node.appEUI,
     nwkSKey |-> NwkSKey(node.appKey, devNonce),
     appSKey |-> AppSKey(node.appKey, devNonce),
     fCntUp |-> 0, fCntDown |-> 0]

ValidAddrs == {a \in DevAddrs : NwkID(a) = NetIDNwkID(ServerNetID)}

GoodRoot == RootKey("K1")
BadRoot == RootKey("KX")

Frame(mtype, devEUI, appEUI, devAddr, fcnt, mic, payload, mac) ==
    [mtype |-> mtype, devEUI |-> devEUI, appEUI |-> appEUI, devNonce |-> 1,
     devAddr |-> devAddr, fcnt |-> fcnt, mic |-> mic, payload |-> payload,
     mac |-> mac]

JoinFrames ==
    {Frame("JoinRequest", d, a, NoAddr, 0, k, None, FALSE) :
        d \in DevEUIs, a \in AppEUIs, k \in {GoodRoot, BadRoot}}

DataMTypes == {"UnconfirmedDataUp", "ConfirmedDataUp"}

DataFrames ==
    {Frame(m, "", "", a, c, NwkSKey(k, 1), pl, pl # None) :
        m \in DataMTypes, a \in ValidAddrs, c \in 1 .. MaxFCnt,
        k \in {GoodRoot, BadRoot},
        pl \in {None, Encrypt(AppSKey(GoodRoot, 1), "hello")}}

OtherFrames ==
    {Frame(m, "", "", NoAddr, 0, BadRoot, None, FALSE) :
        m \in MTypes \ ({"JoinRequest"} \cup DataMTypes)}

Frames == JoinFrames \cup DataFrames \cup OtherFrames

\* models.TXPayload and models.MACPayload.
TXPayloads == [devEUI : DevEUIs, data : {"d1", "d2"}]
MACPayloads == [devEUI : DevEUIs, cmd : {"c1", "c2"}]

IdleWorker == [pc |-> "idle", item |-> None, ns |-> None, err |-> ""]

\* A JSON-RPC call's name, its error ("" for nil) and its reply.
Call(op, err, ns, addr) ==
    [op |-> op, err |-> err, ns |-> ns, addr |-> addr, dev |-> ""]
NoCall == Call("", "", None, NoAddr)

----------------------------------------------------------------------------
(* Session Store and Queue Store. *)

\* get(address): None stands for the not-found error.
GetNodeSession(ss, devAddr) == IF devAddr \in DOMAIN ss THEN ss[devAddr] ELSE None

\* The registry's lookup by device identity.
GetNode(nd, devEUI) == IF devEUI \in DOMAIN nd THEN nd[devEUI] ELSE None

\* getByDeviceIdentity(id): through the secondary index.
GetNodeSessionByDevEUI(ss, ix, devEUI) ==
    IF ix[devEUI] = NoAddr THEN None ELSE ss[ix[devEUI]]

\* save(session): upsert under the session's address, index its device.
SaveNodeSession(ss, ix, ns) ==
    [ss |-> [ss EXCEPT ![ns.devAddr] = ns],
     ix |-> [ix EXCEPT ![ns.devEUI] = ns.devAddr]]

\* create(session): as save, replacing any prior session of the same device.
CreateNodeSession(ss, ix, ns) ==
    LET old == ix[ns.devEUI]
        kept == IF old # NoAddr /\ ss[old] # None /\ ss[old].devEUI = ns.devEUI
                THEN [ss EXCEPT ![old] = None]
                ELSE ss
    IN  SaveNodeSession(kept, ix, ns)

\* delete(address): the session and the index entry that leads to it.
DeleteNodeSession(ss, ix, devAddr) ==
    [ss |-> [ss EXCEPT ![devAddr] = None],
     ix |-> [d \in DOMAIN ix |-> IF ix[d] = devAddr THEN NoAddr ELSE ix[d]]]

\* The addresses the random-address allocator may return.
FreeAddrs(ss) == {a \in ValidAddrs : ss[a] = None}

\* enqueue(deviceIdentity, payload)
Enqueue(q, item) == [q EXCEPT ![item.devEUI] = Append(@, item)]

----------------------------------------------------------------------------
(* The initial states: NewServer(ctx) over a registry holding application  *)
(* A1 and its provisioned devices `prov`, a Session Store holding the      *)
(* sessions `pre` (the store outlives the server), and the traffic `q` of  *)
(* the run.                                                                *)

E1Node == Node("E1", "A1", GoodRoot)

\* The stores that hold no session, or the session of an earlier join of E1.
PreStores ==
    {{}} \cup {{NewSession(a, E1Node, 1)} : a \in {CHOOSE v \in ValidAddrs : \A u \in ValidAddrs : v <= u}}

InitWith(q, pre, prov) ==
    /\ started = FALSE
    /\ hpc = [h \in Handlers |-> "new"]
    /\ swg = 0
    /\ hwg = [h \in Handlers |-> 0]
    /\ closed = [h \in Handlers |-> FALSE]
    /\ stop = [pc |-> "gateway", err |-> "", tried |-> {}, waited |-> FALSE]
    /\ wk = [h \in Handlers |-> [i \in Slots |-> IdleWorker]]
    /\ used = [k \in DOMAIN q |-> 0]
    /\ quota = q
    /\ sessions = [a \in DevAddrs |->
                       IF \E ns \in pre : ns.devAddr = a
                       THEN CHOOSE ns \in pre : ns.devAddr = a ELSE None]
    /\ devIndex = [d \in DevEUIs |->
                       IF \E ns \in pre : ns.devEUI = d
                       THEN (CHOOSE ns \in pre : ns.devEUI = d).devAddr ELSE NoAddr]
    /\ txQueue = [d \in DevEUIs |-> <<>>]
    /\ macQueue = [d \in DevEUIs |-> <<>>]
    /\ appOut = EmptyBag
    /\ ctrlOut = EmptyBag
    /\ gwOut = EmptyBag
    /\ nodes = [d \in DevEUIs |-> IF d \in prov THEN Node(d, "A1", GoodRoot) ELSE None]
    /\ apps = {"A1"}
    /\ api = NoCall

Init ==
    \E pre \in PreStores :
        InitWith([rx |-> SupRX, tx |-> SupTX, mac |-> SupMAC, api |-> 0], pre, {"E1"})

----------------------------------------------------------------------------
(* Server.Start, the stream handlers and Server.Stop. *)

storeVars == <<sessions, devIndex, txQueue, macQueue, appOut, ctrlOut, gwOut,
               nodes, apps, api>>

\* Server.Start: three go statements; it returns nil.
Start ==
    /\ ~started
    /\ started' = TRUE
    /\ hpc' = [h \in Handlers |-> "spawned"]
    /\ UNCHANGED <<swg, hwg, closed, stop, wk, used, quota, storeVars>>

\* The handler goroutine starts running: s.wg.Add(1), then the range loop.
HandlerEnter(h) ==
    /\ hpc[h] = "spawned"
    /\ swg' = swg + 1
    /\ hpc' = [hpc EXCEPT ![h] = "loop"]
    /\ UNCHANGED <<started, hwg, closed, stop, wk, used, quota, storeVars>>

\* The slots of handler h that hold a worker.
Live(h) == {i \in Slots : wk[h][i].pc # "idle"}

FreeSlots(h) == {i \in Slots : wk[h][i].pc = "idle"}
FirstFree(h) == CHOOSE i \in FreeSlots(h) : \A j \in FreeSlots(h) : i <= j

\* Spawned with the closure capturing the loop variable instead of taking the
\* item as its argument: every live worker of the handler sees the newest item.
SpawnedSharingLoopVar(ws, i, item) ==
    [j \in DOMAIN ws |->
        IF j = i THEN [pc |-> "spawned", item |-> item, ns |-> None, err |-> ""]
        ELSE IF ws[j].pc # "idle" THEN [ws[j] EXCEPT !.item = item]
        ELSE ws[j]]

\* `go func(item){...}(item)`: a new worker in slot i, holding its own item.
Spawned(ws, i, item) ==
    [ws EXCEPT ![i] = [pc |-> "spawned", item |-> item, ns |-> None, err |-> ""]]

\* One iteration of `for item := range stream`: the item is received and
\* its worker is spawned (it has not run yet).
Recv(h, item) ==
    /\ hpc[h] = "loop"
    /\ ~closed[h]
    /\ used[h] < quota[h]
    /\ FreeSlots(h) # {}
    /\ wk' = [wk EXCEPT ![h] = Spawned(wk[h], FirstFree(h), item)]
    /\ used' = [used EXCEPT ![h] = @ + 1]
    /\ UNCHANGED <<started, hpc, swg, hwg, closed, stop, quota, storeVars>>

\* The stream was closed: the range loop ends and the handler reaches wg.Wait().
StreamEnd(h) ==
    /\ hpc[h] = "loop"
    /\ closed[h]
    /\ hpc' = [hpc EXCEPT ![h] = "wait"]
    /\ UNCHANGED <<started, swg, hwg, closed, stop, wk, used, quota, storeVars>>

\* wg.Wait() returns once the handler's counter is zero; the handler returns
\* and the deferred s.wg.Done() runs.
HandlerReturn(h) ==
    /\ hpc[h] = "wait"
    /\ hwg[h] = 0
    /\ hpc' = [hpc EXCEPT ![h] = "done"]
    /\ swg' = swg - 1
    /\ UNCHANGED <<started, hwg, closed, stop, wk, used, quota, storeVars>>

Backends == <<"gateway", "application", "controller">>
StreamOf(b) == CASE b = "gateway" -> "rx" [] b = "application" -> "tx" [] OTHER -> "mac"

\* AfterClose with the close error dropped: Stop carries on regardless.
AfterCloseIgnoringError(b, ok) ==
    CASE b = "gateway" -> "application"
      [] b = "application" -> "controller"
      [] OTHER -> "wait"

\* Where Stop goes after Close() of backend b returned: on to the next close
\* (or to the wait), or out with an error naming b.
AfterClose(b, ok) ==
    IF ~ok THEN "error"
    ELSE CASE b = "gateway" -> "application"
           [] b = "application" -> "controller"
           [] OTHER -> "wait"

\* Server.Stop closes the next backend.
StopClose(ok) ==
    /\ started
    /\ stop.pc \in {"gateway", "application", "controller"}
    /\ stop' = [stop EXCEPT !.pc = AfterClose(stop.pc, ok),
                            !.err = IF AfterClose(stop.pc, ok) = "error" THEN stop.pc ELSE "",
                            !.tried = @ \cup {stop.pc}]
    /\ closed' = IF ok THEN [closed EXCEPT ![StreamOf(stop.pc)] = TRUE] ELSE closed
    /\ UNCHANGED <<started, hpc, swg, hwg, wk, used, quota, storeVars>>

\* Server.Stop: s.wg.Wait() returns once the counter is zero; Stop returns nil.
StopWait ==
    /\ stop.pc = "wait"
    /\ swg = 0
    /\ stop' = [stop EXCEPT !.pc = "nil", !.waited = TRUE]
    /\ UNCHANGED <<started, hpc, swg, hwg, closed, wk, used, quota, storeVars>>

----------------------------------------------------------------------------
(* The per-item workers. *)

supVars == <<started, swg, closed, stop, used, quota>>

\* The worker goroutine starts running: wg.Add(1).
WorkerAdd(h, i) ==
    /\ wk[h][i].pc = "spawned"
    /\ hwg' = [hwg EXCEPT ![h] = @ + 1]
    /\ wk' = [wk EXCEPT ![h][i].pc = "run"]
    /\ UNCHANGED <<supVars, hpc, storeVars>>

\* OnItemError as log.Fatalf would have it: the process, and with it the
\* handler, is gone.
OnItemErrorFatal(hp, h) == [hp EXCEPT ![h] = "done"]

\* What an item's error does to the handlers: it is logged, nothing else.
OnItemError(hp, h) == hp

\* The worker's function returns (after logging its error, if any) and the
\* deferred wg.Done() runs.
WorkerDone(h, i) ==
    /\ wk[h][i].pc = "fin"
    /\ hwg' = [hwg EXCEPT ![h] = @ - 1]
    /\ wk' = [wk EXCEPT ![h][i] = IdleWorker]
    /\ hpc' = IF wk[h][i].err # "" THEN OnItemError(hpc, h) ELSE hpc
    /\ UNCHANGED <<supVars, storeVars>>

\* handleTXPayloads' worker: storage.AddTXPayloadToQueue, which may fail.
EnqueueTX(i, ok) ==
    /\ wk["tx"][i].pc = "run"
    /\ txQueue' = IF ok THEN Enqueue(txQueue, wk["tx"][i].item) ELSE txQueue
    /\ wk' = [wk EXCEPT !["tx"][i].pc = "fin",
                        !["tx"][i].err = IF ok THEN "" ELSE "store error"]
    /\ UNCHANGED <<supVars, hpc, hwg, sessions, devIndex, macQueue, appOut,
                   ctrlOut, gwOut, nodes, apps, api>>

\* EnqueueMAC putting the MAC command on the device's application-payload
\* queue.
EnqueueMACOnPayloadQueue(i, ok) ==
    /\ wk["mac"][i].pc = "run"
    /\ txQueue' = IF ok THEN Enqueue(txQueue, wk["mac"][i].item) ELSE txQueue
    /\ wk' = [wk EXCEPT !["mac"][i].pc = "fin",
                        !["mac"][i].err = IF ok THEN "" ELSE "store error"]
    /\ UNCHANGED <<supVars, hpc, hwg, sessions, devIndex, macQueue, appOut,
                   ctrlOut, gwOut, nodes, apps, api>>

\* handleTXMACPayloads' worker: storage.AddMACPayloadToTXQueue, which may fail.
EnqueueMAC(i, ok) ==
    /\ wk["mac"][i].pc = "run"
    /\ macQueue' = IF ok THEN Enqueue(macQueue, wk["mac"][i].item) ELSE macQueue
    /\ wk' = [wk EXCEPT !["mac"][i].pc = "fin",
                        !["mac"][i].err = IF ok THEN "" ELSE "store error"]
    /\ UNCHANGED <<supVars, hpc, hwg, sessions, devIndex, txQueue, appOut,
                   ctrlOut, gwOut, nodes, apps, api>>

\* Route with the ConfirmedDataUp case missing from the switch.
RouteWithoutConfirmed(mtype) ==
    CASE mtype = "JoinRequest" -> "join"
      [] mtype = "UnconfirmedDataUp" -> "data"
      [] OTHER -> "unknown"

\* Route with the JoinRequest case sent to the Data-Uplink Processor.
RouteJoinAsData(mtype) ==
    CASE mtype \in {"JoinRequest", "UnconfirmedDataUp", "ConfirmedDataUp"} -> "data"
      [] OTHER -> "unknown"

\* handleRXPacket's switch on the message type.
Route(mtype) ==
    CASE mtype = "JoinRequest" -> "join"
      [] mtype \in {"UnconfirmedDataUp", "ConfirmedDataUp"} -> "data"
      [] OTHER -> "unknown"

\* Join Processor, steps 1 and 2: the device must be provisioned, the
\* integrity code must verify under its root key, the application must exist.
JoinError(f, nd, ap) ==
    IF GetNode(nd, f.devEUI) = None THEN "join: not found"
    ELSE IF f.mic # GetNode(nd, f.devEUI).appKey THEN "join: invalid MIC"
    ELSE IF f.appEUI \notin ap \/ GetNode(nd, f.devEUI).appEUI # f.appEUI
         THEN "join: not found"
    ELSE ""

\* Data-Uplink Processor, step 3: accept only a strictly greater counter.
ValidFCnt(fcnt, stored) == fcnt > stored

\* Data-Uplink Processor, steps 1 to 3 against the session just read.
DataError(f, ns) ==
    IF ns = None THEN "data: session not found"
    ELSE IF f.mic # ns.nwkSKey THEN "data: invalid MIC"
    ELSE IF ~ValidFCnt(f.fcnt, ns.fCntUp) THEN "data: replay"
    ELSE ""

\* The worker after handleRXPacket's dispatch and the processor's validation,
\* which only read the registry and the Session Store.
Dispatched(w, ss, nd, ap) ==
    LET f == w.item
        r == Route(f.mtype)
    IN  CASE r = "join" ->
               IF JoinError(f, nd, ap) # ""
               THEN [w EXCEPT !.pc = "fin", !.err = JoinError(f, nd, ap)]
               ELSE [w EXCEPT !.pc = "alloc",
                              !.ns = NewSession(NoAddr, GetNode(nd, f.devEUI), f.devNonce)]
          [] r = "data" ->
               IF DataError(f, GetNodeSession(ss, f.devAddr)) # ""
               THEN [w EXCEPT !.pc = "fin",
                              !.err = DataError(f, GetNodeSession(ss, f.devAddr))]
               ELSE [w EXCEPT !.pc = "app", !.ns = GetNodeSession(ss, f.devAddr)]
          [] OTHER -> [w EXCEPT !.pc = "fin", !.err = "unknown MType"]

\* handleRXPackets' worker calls handleRXPacket.
RXDispatch(i) ==
    /\ wk["rx"][i].pc = "run"
    /\ wk' = [wk EXCEPT !["rx"][i] = Dispatched(wk["rx"][i], sessions, nodes, apps)]
    /\ UNCHANGED <<supVars, hpc, hwg, storeVars>>

\* Join Processor, step 3: a random free address of the configured network.
JoinAllocate(i) ==
    /\ wk["rx"][i].pc = "alloc"
    /\ IF FreeAddrs(sessions) = {}
       THEN wk' = [wk EXCEPT !["rx"][i].pc = "fin",
                             !["rx"][i].err = "no free DevAddr"]
       ELSE \E a \in FreeAddrs(sessions) :
               wk' = [wk EXCEPT !["rx"][i].pc = "create",
                                !["rx"][i].ns.devAddr = a]
    /\ UNCHANGED <<supVars, hpc, hwg, storeVars>>

\* Join Processor, step 5: persist the new session.
JoinCreate(i) ==
    /\ wk["rx"][i].pc = "create"
    /\ sessions' = CreateNodeSession(sessions, devIndex, wk["rx"][i].ns).ss
    /\ devIndex' = CreateNodeSession(sessions, devIndex, wk["rx"][i].ns).ix
    /\ wk' = [wk EXCEPT !["rx"][i].pc = "accept"]
    /\ UNCHANGED <<supVars, hpc, hwg, txQueue, macQueue, appOut, ctrlOut,
                   gwOut, nodes, apps, api>>

\* Join Processor, step 6: hand the join-accept to the outbound path.
JoinAccept(i) ==
    /\ wk["rx"][i].pc = "accept"
    /\ gwOut' = gwOut (+) SetToBag({[devEUI |-> wk["rx"][i].ns.devEUI,
                                     devAddr |-> wk["rx"][i].ns.devAddr]})
    /\ wk' = [wk EXCEPT !["rx"][i].pc = "fin"]
    /\ UNCHANGED <<supVars, hpc, hwg, sessions, devIndex, txQueue, macQueue,
                   appOut, ctrlOut, nodes, apps, api>>

\* What step 4 hands to the application backend for frame f under session ns.
AppPayload(f, ns) ==
    [devEUI |-> ns.devEUI, appEUI |-> ns.appEUI,
     data |-> Decrypt(ns.appSKey, f.payload)]

\* Data-Uplink Processor, step 4: decrypt and forward the application payload.
DataForwardApp(i) ==
    /\ wk["rx"][i].pc = "app"
    /\ appOut' = IF wk["rx"][i].item.payload # None
                 THEN appOut (+) SetToBag({AppPayload(wk["rx"][i].item, wk["rx"][i].ns)})
                 ELSE appOut
    /\ wk' = [wk EXCEPT !["rx"][i].pc = "ctrl"]
    /\ UNCHANGED <<supVars, hpc, hwg, sessions, devIndex, txQueue, macQueue,
                   ctrlOut, gwOut, nodes, apps, api>>

\* Data-Uplink Processor, step 5: forward the MAC commands.
DataForwardCtrl(i) ==
    /\ wk["rx"][i].pc = "ctrl"
    /\ ctrlOut' = IF wk["rx"][i].item.mac
                  THEN ctrlOut (+) SetToBag({[devEUI |-> wk["rx"][i].ns.devEUI]})
                  ELSE ctrlOut
    /\ wk' = [wk EXCEPT !["rx"][i].pc = "save"]
    /\ UNCHANGED <<supVars, hpc, hwg, sessions, devIndex, txQueue, macQueue,
                   appOut, gwOut, nodes, apps, api>>

\* The session step 6 writes back: the one read, with the frame's counter.
Updated(ns, f) == [ns EXCEPT !.fCntUp = f.fcnt]

\* Data-Uplink Processor, step 6: persist the updated session.
DataSave(i) ==
    /\ wk["rx"][i].pc = "save"
    /\ sessions' = SaveNodeSession(sessions, devIndex,
                                   Updated(wk["rx"][i].ns, wk["rx"][i].item)).ss
    /\ devIndex' = SaveNodeSession(sessions, devIndex,
                                   Updated(wk["rx"][i].ns, wk["rx"][i].item)).ix
    /\ wk' = [wk EXCEPT !["rx"][i].pc = "fin"]
    /\ UNCHANGED <<supVars, hpc, hwg, txQueue, macQueue, appOut, ctrlOut,
                   gwOut, nodes, apps, api>>

\* Any step of a worker goroutine.
WorkerStep ==
    \/ \E h \in Handlers, i \in Slots : WorkerAdd(h, i) \/ WorkerDone(h, i)
    \/ \E i \in Slots, ok \in BOOLEAN : EnqueueTX(i, ok) \/ EnqueueMAC(i, ok)
    \/ \E i \in Slots : \/ RXDispatch(i)
                        \/ JoinAllocate(i) \/ JoinCreate(i) \/ JoinAccept(i)
                        \/ DataForwardApp(i) \/ DataForwardCtrl(i) \/ DataSave(i)

\* Any step of a handler goroutine other than taking an item.
HandlerStep ==
    \E h \in Handlers : HandlerEnter(h) \/ StreamEnd(h) \/ HandlerReturn(h)

----------------------------------------------------------------------------
(* The supervisor runs: Start, a little traffic on all three streams, Stop. *)

SupFrames ==
    {f \in JoinFrames : f.devEUI = "E1" /\ f.appEUI = "A1" /\ f.mic = GoodRoot}
    \cup {f \in DataFrames : /\ f.mtype = "ConfirmedDataUp" /\ f.fcnt = 1
                             /\ f.mic = NwkSKey(GoodRoot, 1) /\ f.payload # None}
    \cup {f \in OtherFrames : f.mtype = "Proprietary"}

SupTXPayloads == {p \in TXPayloads : p.devEUI = "E1" /\ p.data = "d1"}
SupMACPayloads == {p \in MACPayloads : p.devEUI = "E1" /\ p.cmd = "c1"}

Next ==
    \/ Start
    \/ HandlerStep
    \/ \E f \in SupFrames : Recv("rx", f)
    \/ \E p \in SupTXPayloads : Recv("tx", p)
    \/ \E p \in SupMACPayloads : Recv("mac", p)
    \/ WorkerStep
    \/ \E ok \in BOOLEAN : StopClose(ok)
    \/ StopWait

Spec == Init /\ [][Next]_vars

\* The Go scheduler runs every runnable goroutine: a handler or worker step
\* that stays possible is eventually taken.
FairSpec == Spec /\ WF_vars(HandlerStep \/ WorkerStep)

\* The Go scheduler, and a caller of Stop that is scheduled as well: once
\* s.wg's counter stays at zero, the pending s.wg.Wait() returns.
FairStopSpec == FairSpec /\ WF_vars(StopWait)

----------------------------------------------------------------------------
(* The JSON-RPC session API. *)

apiFrame == <<started, hpc, swg, hwg, closed, stop, wk, quota, txQueue,
              macQueue, appOut, ctrlOut, gwOut, nodes, apps>>

\* The sessions a client submits.
APISessions ==
    [devAddr : DevAddrs, devEUI : DevEUIs, appEUI : AppEUIs,
     nwkSKey : {NwkSKey(GoodRoot, 1)}, appSKey : {AppSKey(GoodRoot, 1)},
     fCntUp : 0 .. MaxFCnt, fCntDown : {0}]

\* CreateError consulting the registry before it looks at the address.
CreateErrorRegistryFirst(ns, nd, ap) ==
    IF nd[ns.devEUI] = None THEN "node not found"
    ELSE IF ns.appEUI \notin ap THEN "application not found"
    ELSE IF NwkID(ns.devAddr) # NetIDNwkID(ServerNetID) THEN "DevAddr must contain NwkID"
    ELSE ""

\* API.CreateNodeSession's validation: the NwkID, the node, the application.
CreateError(ns, nd, ap) ==
    IF NwkID(ns.devAddr) # NetIDNwkID(ServerNetID) THEN "DevAddr must contain NwkID"
    ELSE IF nd[ns.devEUI] = None THEN "node not found"
    ELSE IF ns.appEUI \notin ap THEN "application not found"
    ELSE ""

APICall == used.api < quota.api /\ used' = [used EXCEPT !.api = @ + 1]

\* API.GetNodeSession
APIGetNodeSession(devAddr) ==
    /\ APICall
    /\ api' = Call("GetNodeSession",
                   IF GetNodeSession(sessions, devAddr) = None THEN "not found" ELSE "",
                   GetNodeSession(sessions, devAddr), NoAddr)
    /\ UNCHANGED <<apiFrame, sessions, devIndex>>

\* ByDevEUIReply looking the session up under the wrong key.
ByDevEUIReplyWrongKey(ss, ix, devEUI) ==
    Call("GetNodeSessionByDevEUI",
         IF \A a \in DOMAIN ss : ss[a] = None THEN "not found" ELSE "",
         IF \A a \in DOMAIN ss : ss[a] = None THEN None
         ELSE ss[CHOOSE a \in DOMAIN ss : ss[a] # None], NoAddr)

\* API.GetNodeSessionByDevEUI's reply: the session, or the store's error.
ByDevEUIReply(ss, ix, devEUI) ==
    Call("GetNodeSessionByDevEUI",
         IF GetNodeSessionByDevEUI(ss, ix, devEUI) = None THEN "not found" ELSE "",
         GetNodeSessionByDevEUI(ss, ix, devEUI), NoAddr)

\* API.GetNodeSessionByDevEUI
APIGetNodeSessionByDevEUI(devEUI) ==
    /\ APICall
    /\ api' = [ByDevEUIReply(sessions, devIndex, devEUI) EXCEPT !.dev = devEUI]
    /\ UNCHANGED <<apiFrame, sessions, devIndex>>

\* API.CreateNodeSession
APICreateNodeSession(ns) ==
    /\ APICall
    /\ IF CreateError(ns, nodes, apps) # ""
       THEN /\ api' = Call("CreateNodeSession", CreateError(ns, nodes, apps), None, NoAddr)
            /\ UNCHANGED <<sessions, devIndex>>
       ELSE /\ api' = Call("CreateNodeSession", "", None, ns.devAddr)
            /\ sessions' = CreateNodeSession(sessions, devIndex, ns).ss
            /\ devIndex' = CreateNodeSession(sessions, devIndex, ns).ix
    /\ UNCHANGED apiFrame

\* API.UpdateNodeSession
APIUpdateNodeSession(ns) ==
    /\ APICall
    /\ api' = Call("UpdateNodeSession", "", None, NoAddr)
    /\ sessions' = SaveNodeSession(sessions, devIndex, ns).ss
    /\ devIndex' = SaveNodeSession(sessions, devIndex, ns).ix
    /\ UNCHANGED apiFrame

\* API.DeleteNodeSession
APIDeleteNodeSession(devAddr) ==
    /\ APICall
    /\ IF sessions[devAddr] = None
       THEN /\ api' = Call("DeleteNodeSession", "not found", None, NoAddr)
            /\ UNCHANGED <<sessions, devIndex>>
       ELSE /\ api' = Call("DeleteNodeSession", "", None, devAddr)
            /\ sessions' = DeleteNodeSession(sessions, devIndex, devAddr).ss
            /\ devIndex' = DeleteNodeSession(sessions, devIndex, devAddr).ix
    /\ UNCHANGED apiFrame

\* API.GetRandomDevAddr
APIGetRandomDevAddr ==
    /\ APICall
    /\ IF FreeAddrs(sessions) = {}
       THEN api' = Call("GetRandomDevAddr", "no free DevAddr", None, NoAddr)
       ELSE \E a \in FreeAddrs(sessions) : api' = Call("GetRandomDevAddr", "", None, a)
    /\ UNCHANGED <<apiFrame, sessions, devIndex>>

SessionAPI ==
    \/ \E a \in DevAddrs : APIGetNodeSession(a) \/ APIDeleteNodeSession(a)
    \/ \E d \in DevEUIs : APIGetNodeSessionByDevEUI(d)
    \/ \E ns \in APISessions : APICreateNodeSession(ns) \/ APIUpdateNodeSession(ns)
    \/ APIGetRandomDevAddr

----------------------------------------------------------------------------
(* The uplink runs: the radio-frame pipeline under the full traffic.       *)

InitUplink ==
    InitWith([rx |-> UpRX, tx |-> 0, mac |-> 0, api |-> 0], {}, {"E1"})

RXWorkerStep ==
    \E i \in Slots : \/ WorkerAdd("rx", i) \/ WorkerDone("rx", i)
                     \/ RXDispatch(i)
                     \/ JoinAllocate(i) \/ JoinCreate(i) \/ JoinAccept(i)
                     \/ DataForwardApp(i) \/ DataForwardCtrl(i) \/ DataSave(i)

NextUplink ==
    \/ Start
    \/ HandlerEnter("rx")
    \/ \E f \in Frames : Recv("rx", f)
    \/ RXWorkerStep

SpecUplink == InitUplink /\ [][NextUplink]_vars

----------------------------------------------------------------------------
(* The session-API runs: JSON-RPC session calls beside a radio frame.      *)

ApiFrames ==
    {f \in JoinFrames : f.devEUI = "E1" /\ f.appEUI = "A1" /\ f.mic = GoodRoot}
    \cup {f \in DataFrames : /\ f.mtype = "UnconfirmedDataUp"
                             /\ f.mic = NwkSKey(GoodRoot, 1) /\ f.payload # None}

InitAPI ==
    InitWith([rx |-> ApiRX, tx |-> 0, mac |-> 0, api |-> ApiCalls], {}, {"E1"})

NextAPI ==
    \/ Start
    \/ HandlerEnter("rx")
    \/ \E f \in ApiFrames : Recv("rx", f)
    \/ RXWorkerStep
    \/ SessionAPI

SpecAPI == InitAPI /\ [][NextAPI]_vars

----------------------------------------------------------------------------
(* The sequential runs: radio frames processed one at a time (the next     *)
(* frame arrives when no worker is alive), both devices provisioned.       *)

InitSeq ==
    InitWith([rx |-> SeqRX, tx |-> 0, mac |-> 0, api |-> SeqCalls], {}, {"E1", "E2"})

RecvAlone(f) == Live("rx") = {} /\ Recv("rx", f)

NextSeq ==
    \/ Start
    \/ HandlerEnter("rx")
    \/ \E f \in Frames : RecvAlone(f)
    \/ RXWorkerStep
    \/ \E d \in DevEUIs : APIGetNodeSessionByDevEUI(d)

SpecSeq == InitSeq /\ [][NextSeq]_vars

----------------------------------------------------------------------------
(* NodeAPI: identities and keys arrive as text.                            *)

\* The characters a text is made of; "g" is not a hexadecimal digit.
TextChars == {"1", "2", "g"}
HexChars == {"1", "2"}
Texts == UNION {[1 .. n -> TextChars] : n \in 0 .. MaxTextLen}

\* The number of hexadecimal digits of an identity or key (16 and 32 in
\* LoRaWAN, one here).
HexLen == 1

HexValue(c) == CASE c = "1" -> 1 [] c = "2" -> 2
HexChar(n) == CASE n = 1 -> "1" [] n = 2 -> "2"

\* EUI64.UnmarshalText and AES128Key.UnmarshalText: the bytes the hexadecimal
\* text stands for; None stands for the error (wrong length, or a character
\* that is no hexadecimal digit).
UnmarshalText(text) ==
    IF Len(text) # HexLen \/ \E k \in 1 .. Len(text) : text[k] \notin HexChars
    THEN None
    ELSE [bytes |-> [k \in 1 .. Len(text) |-> HexValue(text[k])]]

\* MarshalText: the hexadecimal text of the bytes.
MarshalText(v) == [k \in 1 .. Len(v.bytes) |-> HexChar(v.bytes[k])]

\* The identities and keys of the model, by their bytes.
DevEUINames == <<"E1", "E2">>
AppEUINames == <<"A1", "A2">>
AppKeyNames == <<"K1", "KX">>
DevEUIOf(v) == DevEUINames[v.bytes[1]]
AppEUIOf(v) == AppEUINames[v.bytes[1]]
AppKeyOf(v) == RootKey(AppKeyNames[v.bytes[1]])
BytesOf(names, x) == [bytes |-> <<CHOOSE n \in DOMAIN names : names[n] = x>>]

\* A NodeAPI call: its name, its request, its error ("" for nil), its
\* response and the storage calls it made, in order.
NodeReply(op, req, err, resp, db) ==
    [op |-> op, req |-> req, err |-> err, resp |-> resp, db |-> db]

\* One storage call of a NodeAPI method and whether it succeeded.
DB(call, ok) == [call |-> call, ok |-> ok]

\* flush(deviceIdentity): clears the device's application-payload queue.
FlushTXPayloadQueue(q, devEUI) == [q EXCEPT ![devEUI] = <<>>]

\* FlushCall carrying on after a text that did not parse: the zero identity,
\* under which the store knows every queue, is flushed.
FlushCallIgnoringParseError(text, ok, q) ==
    IF UnmarshalText(text) = None
    THEN [err |-> "", q |-> [d \in DOMAIN q |-> <<>>], db |-> <<DB("FlushTXPayloadQueue", TRUE)>>]
    ELSE IF ~ok
    THEN [err |-> "store error", q |-> q, db |-> <<DB("FlushTXPayloadQueue", FALSE)>>]
    ELSE [err |-> "",
          q |-> FlushTXPayloadQueue(q, DevEUIOf(UnmarshalText(text))),
          db |-> <<DB("FlushTXPayloadQueue", TRUE)>>]

\* NodeAPI.FlushTXPayloadQueue on the application-payload queues q: the
\* error, the queues afterwards and the storage calls made.
FlushCall(text, ok, q) ==
    IF UnmarshalText(text) = None
    THEN [err |-> "parse error", q |-> q, db |-> <<>>]
    ELSE IF ~ok
    THEN [err |-> "store error", q |-> q, db |-> <<DB("FlushTXPayloadQueue", FALSE)>>]
    ELSE [err |-> "",
          q |-> FlushTXPayloadQueue(q, DevEUIOf(UnmarshalText(text))),
          db |-> <<DB("FlushTXPayloadQueue", TRUE)>>]

\* NodeAPI.FlushTXPayloadQueue
NodeFlushTXPayloadQueue(text, ok) ==
    /\ APICall
    /\ api' = NodeReply("FlushTXPayloadQueue", text, FlushCall(text, ok, txQueue).err,
                        None, FlushCall(text, ok, txQueue).db)
    /\ txQueue' = FlushCall(text, ok, txQueue).q
    /\ UNCHANGED <<started, hpc, swg, hwg, closed, stop, wk, quota, sessions,
                   devIndex, macQueue, appOut, ctrlOut, gwOut, nodes, apps>>

----------------------------------------------------------------------------
(* The queue runs: outbound payloads and MAC commands being queued while   *)
(* a client flushes a device's payload queue.                              *)

InitQueue ==
    InitWith([rx |-> 0, tx |-> QueueTX, mac |-> QueueMAC, api |-> QueueCalls],
             {}, {"E1"})

\* The MAC commands of the queue runs: those for device E1.
QueueMACPayloads == {p \in MACPayloads : p.devEUI = "E1"}

QueueWorkerStep ==
    \/ \E h \in {"tx", "mac"}, i \in Slots : WorkerAdd(h, i) \/ WorkerDone(h, i)
    \/ \E i \in Slots, ok \in BOOLEAN : EnqueueTX(i, ok) \/ EnqueueMAC(i, ok)

NextQueue ==
    \/ Start
    \/ HandlerEnter("tx") \/ HandlerEnter("mac")
    \/ \E p \in TXPayloads : Recv("tx", p)
    \/ \E p \in QueueMACPayloads : Recv("mac", p)
    \/ QueueWorkerStep
    \/ \E text \in Texts, ok \in BOOLEAN : NodeFlushTXPayloadQueue(text, ok)

SpecQueue == InitQueue /\ [][NextQueue]_vars

----------------------------------------------------------------------------
(* NodeAPI over the device registry.                                       *)

\* The registry's operations; a call named in `fail` meets an I/O failure.
StorageCreateNode(nd, node) ==
    IF nd[node.devEUI] # None THEN [err |-> "already exists", nodes |-> nd]
    ELSE [err |-> "", nodes |-> [nd EXCEPT ![node.devEUI] = node]]

StorageUpdateNode(nd, node) ==
    IF nd[node.devEUI] = None THEN [err |-> "not found", nodes |-> nd]
    ELSE [err |-> "", nodes |-> [nd EXCEPT ![node.devEUI] = node]]

StorageDeleteNode(nd, devEUI) ==
    IF nd[devEUI] = None THEN [err |-> "not found", nodes |-> nd]
    ELSE [err |-> "", nodes |-> [nd EXCEPT ![devEUI] = None]]

IsNode(n) == n # None

\* The stored nodes in the order of their device identities.
AllNodes(nd) ==
    SelectSeq([k \in 1 .. Len(DevEUINames) |-> nd[DevEUINames[k]]], IsNode)

Page(seq, limit, offset) ==
    SubSeq(seq, offset + 1, IF offset + limit < Len(seq) THEN offset + limit ELSE Len(seq))

GetNodes(nd, limit, offset) == Page(AllNodes(nd), limit, offset)
GetNodesCount(nd) == Len(AllNodes(nd))

NodesForAppEUI(nd, appEUI) ==
    SelectSeq(AllNodes(nd), LAMBDA n : n.appEUI = appEUI)

GetNodesForAppEUI(nd, appEUI, limit, offset) == Page(NodesForAppEUI(nd, appEUI), limit, offset)
GetNodesForAppEUICount(nd, appEUI) == Len(NodesForAppEUI(nd, appEUI))

\* Go's uint8(x) of a uint32, and the values of a uint32 tried (the largest
\* is the largest integer the model checker represents).
Uint8(x) == x % 256
Uint32Values == {0, 1, 255, 256, 2147483647}

\* What Create and Update make of the request's channel-list reference.
ChannelListRef(id) == IF id > 0 THEN Ptr(id) ELSE Nil

\* The first of the three texts that does not parse, "" if all do.
ParseError(req) ==
    IF UnmarshalText(req.appEUI) = None THEN "parse error: AppEUI"
    ELSE IF UnmarshalText(req.devEUI) = None THEN "parse error: DevEUI"
    ELSE IF UnmarshalText(req.appKey) = None THEN "parse error: AppKey"
    ELSE ""

\* The reply without a response.
Failed(err, nd, db) == [err |-> err, resp |-> None, nodes |-> nd, db |-> db]

\* CreateCall with the check of the root key's text missing: the node is
\* stored with the zero key.
CreateCallUncheckedAppKey(req, fail, nd) ==
    IF UnmarshalText(req.appEUI) = None THEN Failed("parse error: AppEUI", nd, <<>>)
    ELSE IF UnmarshalText(req.devEUI) = None THEN Failed("parse error: DevEUI", nd, <<>>)
    ELSE IF "CreateNode" \in fail
    THEN Failed("store error", nd, <<DB("CreateNode", FALSE)>>)
    ELSE LET node == ModelsNode(DevEUIOf(UnmarshalText(req.devEUI)),
                                AppEUIOf(UnmarshalText(req.appEUI)),
                                IF UnmarshalText(req.appKey) = None THEN RootKey("K0")
                                ELSE AppKeyOf(UnmarshalText(req.appKey)),
                                Uint8(req.rxDelay), Uint8(req.rx1DROffset),
                                ChannelListRef(req.channelListID))
             r == StorageCreateNode(nd, node)
         IN  [err |-> r.err, resp |-> None, nodes |-> r.nodes,
              db |-> <<DB("CreateNode", r.err = "")>>]

\* NodeAPI.Create on the registry nd: the error, the registry afterwards and
\* the storage calls made.
CreateCall(req, fail, nd) ==
    IF ParseError(req) # "" THEN Failed(ParseError(req), nd, <<>>)
    ELSE IF "CreateNode" \in fail
    THEN Failed("store error", nd, <<DB("CreateNode", FALSE)>>)
    ELSE LET node == ModelsNode(DevEUIOf(UnmarshalText(req.devEUI)),
                                AppEUIOf(UnmarshalText(req.appEUI)),
                                AppKeyOf(UnmarshalText(req.appKey)),
                                Uint8(req.rxDelay), Uint8(req.rx1DROffset),
                                ChannelListRef(req.channelListID))
             r == StorageCreateNode(nd, node)
         IN  [err |-> r.err, resp |-> None, nodes |-> r.nodes,
              db |-> <<DB("CreateNode", r.err = "")>>]

\* pb.GetNodeResponse of a stored node.
GetNodeResponse(node) ==
    [devEUI |-> MarshalText(BytesOf(DevEUINames, node.devEUI)),
     appEUI |-> MarshalText(BytesOf(AppEUINames, node.appEUI)),
     appKey |-> MarshalText(BytesOf(AppKeyNames, node.appKey[2])),
     rxDelay |-> node.rxDelay,
     rx1DROffset |-> node.rx1DROffset,
     channelListID |-> IF node.channelListID # Nil THEN node.channelListID.val ELSE 0]

\* NodeAPI.Get
GetCall(text, fail, nd) ==
    IF UnmarshalText(text) = None THEN Failed("parse error: DevEUI", nd, <<>>)
    ELSE IF "GetNode" \in fail THEN Failed("store error", nd, <<DB("GetNode", FALSE)>>)
    ELSE IF GetNode(nd, DevEUIOf(UnmarshalText(text))) = None
    THEN Failed("not found", nd, <<DB("GetNode", FALSE)>>)
    ELSE [err |-> "",
          resp |-> GetNodeResponse(GetNode(nd, DevEUIOf(UnmarshalText(text)))),
          nodes |-> nd, db |-> <<DB("GetNode", TRUE)>>]

\* NodeAPI.Update
UpdateCall(req, fail, nd) ==
    IF ParseError(req) # "" THEN Failed(ParseError(req), nd, <<>>)
    ELSE IF "GetNode" \in fail THEN Failed("store error", nd, <<DB("GetNode", FALSE)>>)
    ELSE IF GetNode(nd, DevEUIOf(UnmarshalText(req.devEUI))) = None
    THEN Failed("not found", nd, <<DB("GetNode", FALSE)>>)
    ELSE IF "UpdateNode" \in fail
    THEN Failed("store error", nd, <<DB("GetNode", TRUE), DB("UpdateNode", FALSE)>>)
    ELSE LET old == GetNode(nd, DevEUIOf(UnmarshalText(req.devEUI)))
             node == [old EXCEPT !.appEUI = AppEUIOf(UnmarshalText(req.appEUI)),
                                 !.appKey = AppKeyOf(UnmarshalText(req.appKey)),
                                 !.rxDelay = Uint8(req.rxDelay),
                                 !.rx1DROffset = Uint8(req.rx1DROffset),
                                 !.channelListID = ChannelListRef(req.channelListID)]
             r == StorageUpdateNode(nd, node)
         IN  [err |-> r.err, resp |-> None, nodes |-> r.nodes,
              db |-> <<DB("GetNode", TRUE), DB("UpdateNode", r.err = "")>>]

\* NodeAPI.Delete
DeleteCall(text, fail, nd) ==
    IF UnmarshalText(text) = None THEN Failed("parse error: DevEUI", nd, <<>>)
    ELSE IF "DeleteNode" \in fail
    THEN Failed("store error", nd, <<DB("DeleteNode", FALSE)>>)
    ELSE LET r == StorageDeleteNode(nd, DevEUIOf(UnmarshalText(text)))
         IN  [err |-> r.err, resp |-> None, nodes |-> r.nodes,
              db |-> <<DB("DeleteNode", r.err = "")>>]

\* NodeAPI.returnList
returnList(count, nodeSeq) ==
    [totalCount |-> count,
     result |-> [k \in 1 .. Len(nodeSeq) |-> GetNodeResponse(nodeSeq[k])]]

\* NodeAPI.List: the error of the count lookup is assigned and never looked
\* at; a failed count lookup hands back the zero count.
ListCall(limit, offset, fail, nd) ==
    IF "GetNodes" \in fail THEN Failed("store error", nd, <<DB("GetNodes", FALSE)>>)
    ELSE [err |-> "",
          resp |-> returnList(IF "GetNodesCount" \in fail THEN 0 ELSE GetNodesCount(nd),
                              GetNodes(nd, limit, offset)),
          nodes |-> nd,
          db |-> <<DB("GetNodes", TRUE), DB("GetNodesCount", "GetNodesCount" \notin fail)>>]

\* NodeAPI.ListByAppEUI
ListByAppEUICall(text, limit, offset, fail, nd) ==
    IF UnmarshalText(text) = None THEN Failed("parse error: AppEUI", nd, <<>>)
    ELSE IF "GetNodes" \in fail THEN Failed("store error", nd, <<DB("GetNodesForAppEUI", FALSE)>>)
    ELSE IF "GetNodesCount" \in fail
    THEN Failed("store error", nd, <<DB("GetNodesForAppEUI", TRUE),
                                     DB("GetNodesForAppEUICount", FALSE)>>)
    ELSE [err |-> "",
          resp |-> returnList(GetNodesForAppEUICount(nd, AppEUIOf(UnmarshalText(text))),
                              GetNodesForAppEUI(nd, AppEUIOf(UnmarshalText(text)),
                                                limit, offset)),
          nodes |-> nd,
          db |-> <<DB("GetNodesForAppEUI", TRUE), DB("GetNodesForAppEUICount", TRUE)>>]

\* A NodeAPI method runs: its reply is recorded and the registry is what the
\* method left.
NodeAPICall(op, req, r) ==
    /\ APICall
    /\ api' = NodeReply(op, req, r.err, r.resp, r.db)
    /\ nodes' = r.nodes
    /\ UNCHANGED <<started, hpc, swg, hwg, closed, stop, wk, quota, sessions,
                   devIndex, txQueue, macQueue, appOut, ctrlOut, gwOut, apps>>

NodeCreate(req, fail) == NodeAPICall("Create", req, CreateCall(req, fail, nodes))
NodeGet(text, fail) == NodeAPICall("Get", text, GetCall(text, fail, nodes))
NodeUpdate(req, fail) == NodeAPICall("Update", req, UpdateCall(req, fail, nodes))
NodeDelete(text, fail) == NodeAPICall("Delete", text, DeleteCall(text, fail, nodes))
NodeList(limit, offset, fail) ==
    NodeAPICall("List", [limit |-> limit, offset |-> offset],
                ListCall(limit, offset, fail, nodes))
NodeListByAppEUI(text, limit, offset, fail) ==
    NodeAPICall("ListByAppEUI", [appEUI |-> text, limit |-> limit, offset |-> offset],
                ListByAppEUICall(text, limit, offset, fail, nodes))

\* pb.CreateNodeRequest / pb.UpdateNodeRequest
NodeRequest(appEUI, devEUI, appKey, rxDelay, rx1DROffset, channelListID) ==
    [appEUI |-> appEUI, devEUI |-> devEUI, appKey |-> appKey, rxDelay |-> rxDelay,
     rx1DROffset |-> rx1DROffset, channelListID |-> channelListID]

----------------------------------------------------------------------------
(* The request-text runs: one Create, Update or Delete, under every text   *)
(* and over every set of provisioned devices.                              *)

TextRequests ==
    {NodeRequest(a, d, k, 1, 1, 0) : a \in Texts, d \in Texts, k \in Texts}

InitText ==
    \E prov \in SUBSET DevEUIs :
        InitWith([rx |-> 0, tx |-> 0, mac |-> 0, api |-> TextCalls], {}, prov)

\* A client may still make a call in this run.
MayCall == used.api < quota.api

NextText ==
    \/ /\ MayCall
       /\ \E req \in TextRequests, fail \in SUBSET {"CreateNode"} : NodeCreate(req, fail)
    \/ /\ MayCall
       /\ \E req \in TextRequests, fail \in SUBSET {"GetNode", "UpdateNode"} :
             NodeUpdate(req, fail)
    \/ /\ MayCall
       /\ \E text \in Texts, fail \in SUBSET {"DeleteNode"} : NodeDelete(text, fail)

SpecText == InitText /\ [][NextText]_vars

----------------------------------------------------------------------------
(* The registry runs: Create, Get and the two lists under well-formed      *)
(* texts, every width of the radio parameters and failing lookups.         *)

WellFormedTexts == {t \in Texts : UnmarshalText(t) # None}

NumberRequests ==
    {NodeRequest(<<"1">>, d, <<"1">>, x, y, c) :
        d \in WellFormedTexts, x \in Uint32Values, y \in Uint32Values, c \in {0, 1}}

InitNode ==
    InitWith([rx |-> 0, tx |-> 0, mac |-> 0, api |-> NodeCalls], {}, {})

NextNode ==
    \/ /\ MayCall
       /\ \E req \in NumberRequests, fail \in SUBSET {"CreateNode"} : NodeCreate(req, fail)
    \/ /\ MayCall
       /\ \E text \in WellFormedTexts, fail \in SUBSET {"GetNode"} : NodeGet(text, fail)
    \/ /\ MayCall
       /\ \E limit \in 1 .. MaxLimit, offset \in 0 .. MaxLimit - 1,
             fail \in SUBSET {"GetNodes", "GetNodesCount"} : NodeList(limit, offset, fail)
    \/ /\ MayCall
       /\ \E text \in Texts, limit \in 1 .. MaxLimit, offset \in 0 .. MaxLimit - 1,
             fail \in SUBSET {"GetNodes", "GetNodesCount"} :
             NodeListByAppEUI(text, limit, offset, fail)

SpecNode == InitNode /\ [][NextNode]_vars

----------------------------------------------------------------------------
(* Properties of Server.Start / Server.Stop. *)

\* C1: when Stop has returned nil, the three stream handlers have returned
\* and no worker is still running or has yet to run.
C1_StopNilMeansAllFinished ==
    stop.pc = "nil" =>
        /\ \A h \in Handlers : hpc[h] = "done"
        /\ \A h \in Handlers : Live(h) = {}

\* C9: Stop closes gateway, application, controller in that order; a failed
\* close ends Stop with an error naming that backend, with the later backends
\* untouched and without having waited on s.wg; Stop returns nil only after
\* three successful closes.
C9_StopClosesInOrder ==
    /\ "application" \in stop.tried => closed["rx"]
    /\ "controller" \in stop.tried => closed["rx"] /\ closed["tx"]
    /\ \A b \in {"gateway", "application", "controller"} :
          closed[StreamOf(b)] => b \in stop.tried
    /\ stop.pc = "error" <=> stop.err # ""
    /\ stop.pc = "error" =>
          /\ stop.err \in stop.tried
          /\ ~closed[StreamOf(stop.err)]
          /\ stop.err = "gateway" => stop.tried = {"gateway"}
          /\ stop.err = "application" => stop.tried = {"gateway", "application"}
          /\ ~stop.waited
    /\ stop.pc = "nil" => /\ \A h \in Handlers : closed[h]
                          /\ stop.waited

\* C9's case: the application backend failed to close while a worker is in
\* flight; the controller backend was never closed.
C9_Witness ==
    /\ stop.pc = "error"
    /\ stop.err = "application"
    /\ "controller" \notin stop.tried
    /\ \E h \in Handlers : Live(h) # {}

\* C10: a handler leaves its range loop only because its stream was closed,
\* never because an item failed, and every item a stream has produced is
\* eventually processed by its worker, whatever happened to the other items.
C10_ItemsAreProcessed ==
    /\ [][\A h \in Handlers :
            hpc[h] = "loop" /\ hpc'[h] # "loop" => closed[h] /\ hpc'[h] = "wait"]_vars
    /\ \A h \in Handlers : \A n \in 1 .. 3 :
          (used[h] >= n) ~> (used[h] - Cardinality(Live(h)) >= n)

\* C10's case: an item failed (its worker holds an error) while the same
\* handler is still in its loop and another stream's item is in flight.
C10_Witness ==
    \E h \in Handlers : \E g \in Handlers \ {h} :
        /\ \E i \in Slots : wk[h][i].pc = "fin" /\ wk[h][i].err # ""
        /\ hpc[h] = "loop"
        /\ \E j \in Slots : wk[g][j].pc \in {"spawned", "run"}

----------------------------------------------------------------------------
(* Properties of the radio-frame pipeline. *)

JoinErrors == {"join: not found", "join: invalid MIC"}
DataErrors == {"data: session not found", "data: invalid MIC", "data: replay"}
InFlight == {"app", "ctrl", "save"}

\* The addresses under which the store holds a session of device d.
SessionsOf(d) == {a \in DevAddrs : sessions[a] # None /\ sessions[a].devEUI = d}

\* C2: with frames processed one at a time, a data-up frame whose integrity
\* code verifies under the stored session is accepted only if its counter is
\* greater than the stored one, is rejected as a replay (and for no other
\* reason) otherwise, and once accepted the stored counter is the frame's.
C2_OneAtATime ==
    \A i \in Slots :
        LET w == wk["rx"][i]
            f == w.item
            cur == GetNodeSession(sessions, f.devAddr)
        IN  (/\ w.pc \notin {"idle", "spawned", "run"}
             /\ f.mtype \in DataMTypes
             /\ cur # None
             /\ f.mic = cur.nwkSKey)
            => \/ w.pc \in InFlight /\ w.err = "" /\ w.ns = cur /\ f.fcnt > cur.fCntUp
               \/ w.pc = "fin" /\ w.err = "" /\ cur.fCntUp = f.fcnt
               \/ w.pc = "fin" /\ w.err = "data: replay" /\ f.fcnt <= cur.fCntUp

\* C2's case: a frame with a valid integrity code and a counter below the
\* stored one (which an earlier accepted frame set) was rejected as a replay.
C2_Witness ==
    \E i \in Slots :
        /\ wk["rx"][i].pc = "fin"
        /\ wk["rx"][i].err = "data: replay"
        /\ wk["rx"][i].item.mtype = "ConfirmedDataUp"
        /\ wk["rx"][i].item.fcnt < sessions[wk["rx"][i].item.devAddr].fCntUp

\* Worker i of the radio-frame handler performs step 6 (the session write).
Saves(i) == wk["rx"][i].pc = "save" /\ wk'["rx"][i].pc = "fin"

\* C3 as claimed: no write of a session by the Data-Uplink Processor lowers
\* the stored uplink counter, whatever the interleaving.
C3_CounterNeverDecreases ==
    [][\A i \in Slots :
          Saves(i) /\ sessions[wk["rx"][i].ns.devAddr] # None
          => sessions'[wk["rx"][i].ns.devAddr].fCntUp
                >= sessions[wk["rx"][i].ns.devAddr].fCntUp]_vars

\* C3 as amended: each write stores a counter greater than the one its worker
\* read, so the stored counter does not decrease across the write whenever the
\* store still holds the session the worker read.
C3_WriteExceedsCounterRead ==
    [][\A i \in Slots :
          Saves(i)
          => /\ sessions'[wk["rx"][i].ns.devAddr].fCntUp > wk["rx"][i].ns.fCntUp
             /\ sessions[wk["rx"][i].ns.devAddr] = wk["rx"][i].ns
                => sessions'[wk["rx"][i].ns.devAddr].fCntUp
                      >= sessions[wk["rx"][i].ns.devAddr].fCntUp]_vars

\* C3's case: a worker is about to write a session that another worker's
\* accepted frame has changed since it was read.
C3_Witness ==
    \E i \in Slots : \E j \in Slots \ {i} :
        /\ wk["rx"][i].pc = "fin" /\ wk["rx"][i].err = ""
        /\ wk["rx"][i].item.mtype \in DataMTypes
        /\ wk["rx"][j].pc = "save"
        /\ wk["rx"][j].ns.devAddr = wk["rx"][i].item.devAddr
        /\ sessions[wk["rx"][j].ns.devAddr] # wk["rx"][j].ns

\* C4: a worker that reads the session while another worker holding the same
\* frame is between its read and its write (the store still holds what that
\* one read) passes the replay check as well.
C4_SecondReaderAlsoPasses ==
    [][\A i \in Slots : \A j \in Slots \ {i} :
          (/\ wk["rx"][i].pc \in InFlight
           /\ wk["rx"][j].pc = "run" /\ wk'["rx"][j].pc # "run"
           /\ wk["rx"][j].item = wk["rx"][i].item
           /\ GetNodeSession(sessions, wk["rx"][i].item.devAddr) = wk["rx"][i].ns)
          => wk'["rx"][j].pc = "app" /\ wk'["rx"][j].ns = wk["rx"][i].ns]_vars

\* C4's case: two workers holding the same data-up frame were both accepted,
\* and its payload reached the application backend twice.
C4_Witness ==
    \E i \in Slots : \E j \in Slots \ {i} :
        /\ wk["rx"][i].pc = "fin" /\ wk["rx"][i].err = ""
        /\ wk["rx"][j].pc = "fin" /\ wk["rx"][j].err = ""
        /\ wk["rx"][i].item = wk["rx"][j].item
        /\ wk["rx"][i].item.mtype \in DataMTypes
        /\ wk["rx"][i].item.payload # None
        /\ \E x \in BagToSet(appOut) : CopiesIn(x, appOut) = 2

\* C5: handleRXPacket sends a JoinRequest to the Join Processor, a data-up
\* frame to the Data-Uplink Processor, and answers any other message type
\* with an error; a worker holding such a frame never changes the Session
\* Store, the Queue Store or what the backends were handed.
C5_Dispatch ==
    [][\A i \in Slots :
          LET w == wk["rx"][i]
              v == wk'["rx"][i]
          IN  /\ (w.pc = "run" /\ v.pc # "run" /\ w.item.mtype = "JoinRequest")
                 => v.pc = "alloc" \/ (v.pc = "fin" /\ v.err \in JoinErrors)
              /\ (w.pc = "run" /\ v.pc # "run" /\ w.item.mtype \in DataMTypes)
                 => v.pc = "app" \/ (v.pc = "fin" /\ v.err \in DataErrors)
              /\ (/\ w.pc # "idle" /\ v # w
                  /\ w.item.mtype \notin {"JoinRequest"} \cup DataMTypes)
                 => /\ UNCHANGED <<sessions, devIndex, txQueue, macQueue,
                                   appOut, ctrlOut, gwOut>>
                    /\ w.pc = "run" => v.pc = "fin" /\ v.err = "unknown MType"
                    /\ v.pc \in {"idle", "run", "fin"}
                    /\ v.ns = None]_vars

\* C5's case: a frame of another message type was answered with the error
\* while the Session Store holds a session.
C5_Witness ==
    \E i \in Slots :
        /\ wk["rx"][i].pc = "fin"
        /\ wk["rx"][i].err = "unknown MType"
        /\ wk["rx"][i].item.mtype = "JoinAccept"
        /\ \E a \in DevAddrs : sessions[a] # None

\* C6: every session in the Session Store has an address carrying the
\* configured network identifier.
C6_SessionsCarryNwkID ==
    \A a \in DevAddrs :
        sessions[a] # None => NwkID(sessions[a].devAddr) = NetIDNwkID(ServerNetID)

BadMIC(f) == GetNode(nodes, f.devEUI) # None /\ f.mic # GetNode(nodes, f.devEUI).appKey
Unprovisioned(f) == GetNode(nodes, f.devEUI) = None \/ f.appEUI \notin apps

\* C7: a join request whose integrity code does not verify, or whose device
\* or application is not provisioned, ends in an authentication or not-found
\* error; none of its worker's steps changes the Session Store or emits a
\* join-accept.
C7_FailedJoinCreatesNothing ==
    [][\A i \in Slots :
          LET w == wk["rx"][i]
              v == wk'["rx"][i]
          IN  (/\ w.pc # "idle" /\ v # w
               /\ w.item.mtype = "JoinRequest"
               /\ BadMIC(w.item) \/ Unprovisioned(w.item))
              => /\ UNCHANGED <<sessions, devIndex, gwOut>>
                 /\ v.pc \in {"idle", "run", "fin"}
                 /\ w.pc = "run"
                    => /\ v.pc = "fin"
                       /\ v.err \in JoinErrors
                       /\ ~Unprovisioned(w.item) => v.err = "join: invalid MIC"
                       /\ ~BadMIC(w.item) => v.err = "join: not found"]_vars

\* C7's case: one join failed on its integrity code and another on an
\* unprovisioned device, while the store holds a session.
C7_Witness ==
    /\ \E i \in Slots : wk["rx"][i].pc = "fin" /\ wk["rx"][i].err = "join: invalid MIC"
    /\ \E j \in Slots : /\ wk["rx"][j].pc = "fin"
                        /\ wk["rx"][j].err = "join: not found"
                        /\ wk["rx"][j].item.devEUI = "E2"
    /\ \E a \in DevAddrs : sessions[a] # None

Rejects(i) ==
    \/ wk["rx"][i].pc = "run" /\ wk'["rx"][i].err \in DataErrors
    \/ wk["rx"][i].pc = "fin" /\ wk["rx"][i].err \in DataErrors
                              /\ wk'["rx"][i] # wk["rx"][i]

\* C11: a data-up frame is rejected when its session is missing, when its
\* integrity code does not verify under the session, or when its counter is
\* not above the stored one; the rejecting worker's steps leave the Session
\* Store, the backends' inputs and both queues as they were.
C11_RejectedFrameChangesNothing ==
    [][\A i \in Slots :
          LET w == wk["rx"][i]
              v == wk'["rx"][i]
              cur == GetNodeSession(sessions, w.item.devAddr)
          IN  /\ (w.pc = "run" /\ v.pc # "run" /\ w.item.mtype \in DataMTypes)
                 => /\ cur = None
                       => v.pc = "fin" /\ v.err = "data: session not found"
                    /\ (cur # None /\ w.item.mic # cur.nwkSKey)
                       => v.pc = "fin" /\ v.err = "data: invalid MIC"
                    /\ (cur # None /\ w.item.mic = cur.nwkSKey
                                   /\ w.item.fcnt <= cur.fCntUp)
                       => v.pc = "fin" /\ v.err = "data: replay"
              /\ (w.pc # "idle" /\ w.item.mtype \in DataMTypes /\ Rejects(i))
                 => /\ UNCHANGED <<sessions, devIndex, appOut, ctrlOut, gwOut,
                                   txQueue, macQueue>>
                    /\ v.pc \in {"fin", "idle"}
                    /\ v.ns = None]_vars

\* C11's case: a frame was rejected as a replay after an earlier frame had
\* been accepted and forwarded; the stored counter is still the accepted one.
C11_Witness ==
    \E i \in Slots :
        /\ wk["rx"][i].pc = "fin"
        /\ wk["rx"][i].err = "data: replay"
        /\ wk["rx"][i].item.fcnt = sessions[wk["rx"][i].item.devAddr].fCntUp
        /\ BagCardinality(appOut) = 1
        /\ \A j \in Slots \ {i} : wk["rx"][j].pc = "idle"

\* C12: the step that follows a data-up frame's acceptance hands the
\* application backend exactly one payload when the frame carries one (tagged
\* with the device and application identity of the session the frame was
\* accepted under, decrypted with that session's key) and none otherwise;
\* nothing else ever reaches the application backend.
C12_OnePayloadPerAcceptedFrame ==
    [][/\ \A i \in Slots :
             LET w == wk["rx"][i]
                 v == wk'["rx"][i]
             IN  (w.pc = "app" /\ v # w)
                 => /\ v.pc = "ctrl"
                    /\ w.item.mtype \in DataMTypes
                    /\ w.ns.devAddr = w.item.devAddr
                    /\ w.item.mic = w.ns.nwkSKey
                    /\ w.item.payload = None => appOut' = appOut
                    /\ w.item.payload # None
                       => appOut' = appOut (+) SetToBag({
                              [devEUI |-> w.ns.devEUI, appEUI |-> w.ns.appEUI,
                               data |-> IF w.item.payload.key = w.ns.appSKey
                                        THEN w.item.payload.data ELSE "garbled"]})
       /\ appOut' # appOut
          => \E i \in Slots : /\ wk["rx"][i].pc = "app"
                              /\ wk'["rx"][i].pc = "ctrl"
                              /\ wk["rx"][i].item.payload # None
                              /\ BagCardinality(appOut') = BagCardinality(appOut) + 1]_vars

\* C12's case: an accepted frame with a payload and an accepted frame without
\* one have both finished, and the application backend holds one payload,
\* the decrypted data under device E1's identity.
C12_Witness ==
    /\ \E i \in Slots : \E j \in Slots \ {i} :
          /\ wk["rx"][i].pc = "fin" /\ wk["rx"][i].err = ""
          /\ wk["rx"][i].item.mtype \in DataMTypes
          /\ wk["rx"][i].item.payload # None
          /\ wk["rx"][j].pc = "fin" /\ wk["rx"][j].err = ""
          /\ wk["rx"][j].item.mtype \in DataMTypes
          /\ wk["rx"][j].item.payload = None
    /\ appOut = SetToBag({[devEUI |-> "E1", appEUI |-> "A1", data |-> "hello"]})

----------------------------------------------------------------------------
(* Properties of the JSON-RPC session API. *)

\* C16: API.CreateNodeSession checks the address's network identifier, then
\* the device identity, then the application identity; the first failing
\* check decides the error, nothing is stored and no session changes; when
\* all three pass, the session is stored under its address.
C16_CreateValidatesInOrder ==
    [][\A ns \in APISessions :
          APICreateNodeSession(ns)
          => LET nwkOK == NwkID(ns.devAddr) = NetIDNwkID(ServerNetID)
                 nodeOK == nodes[ns.devEUI] # None
                 appOK == ns.appEUI \in apps
             IN  /\ ~nwkOK => api'.err = "DevAddr must contain NwkID"
                 /\ (nwkOK /\ ~nodeOK) => api'.err = "node not found"
                 /\ (nwkOK /\ nodeOK /\ ~appOK) => api'.err = "application not found"
                 /\ ~(nwkOK /\ nodeOK /\ appOK)
                    => api'.err # "" /\ UNCHANGED <<sessions, devIndex>>
                 /\ (nwkOK /\ nodeOK /\ appOK)
                    => /\ api'.err = ""
                       /\ api'.addr = ns.devAddr
                       /\ sessions'[ns.devAddr] = ns
                       /\ devIndex'[ns.devEUI] = ns.devAddr]_vars

\* C16's case: a create for an unprovisioned device was refused while the
\* store holds a session, and that session is still there.
C16_Witness ==
    /\ api.op = "CreateNodeSession"
    /\ api.err = "node not found"
    /\ \E a \in DevAddrs : sessions[a] # None /\ sessions[a].devEUI = "E1"

----------------------------------------------------------------------------
(* Properties of shutdown under blocked workers. *)

\* The positions at which a worker is inside a call to a backend or a store.
InCall == {"run", "alloc", "create", "accept", "app", "ctrl", "save"}

\* Once the three closes have succeeded and the workers keep finishing, Stop
\* returns nil (holds under FairStopSpec).
StopReturnsOnceWorkersFinish == (stop.pc = "wait") ~> (stop.pc = "nil")

\* C17: Stop's s.wg.Wait() does not return while a worker is inside a call
\* to a backend or a store, so a worker blocked there forever keeps Stop from
\* returning.
C17_BlockedWorkerHoldsStop ==
    [][(stop.pc = "wait" /\ stop'.pc = "nil")
       => \A h \in Handlers : \A i \in Slots : wk[h][i].pc \notin InCall]_vars

----------------------------------------------------------------------------
(* Properties of the Queue Store and of NodeAPI.FlushTXPayloadQueue. *)

\* The text is the hexadecimal text of a device identity.
WellFormedEUI(text) == Len(text) = HexLen /\ \A k \in 1 .. Len(text) : text[k] \in HexChars

\* C13: when NodeAPI.FlushTXPayloadQueue succeeds for the text of device D,
\* D's application-payload queue is empty right after it, every other
\* device's payload queue and every MAC-command queue is as before; a text
\* that does not parse yields an error, reaches no store and flushes nothing.
C13_FlushEmptiesOneQueue ==
    [][(used'.api # used.api /\ api'.op = "FlushTXPayloadQueue")
       => /\ macQueue' = macQueue
          /\ ~WellFormedEUI(api'.req)
             => api'.err # "" /\ api'.db = <<>> /\ txQueue' = txQueue
          /\ api'.err # "" => txQueue' = txQueue
          /\ (WellFormedEUI(api'.req) /\ api'.err = "")
             => \A d \in DevEUIs :
                   txQueue'[d] = IF MarshalText(BytesOf(DevEUINames, d)) = api'.req
                                 THEN <<>> ELSE txQueue[d]]_vars

\* C13's case: device E1's payload was queued and then flushed, while device
\* E2's payload queue and E1's MAC-command queue keep their entries.
C13_Witness ==
    /\ api.op = "FlushTXPayloadQueue" /\ api.err = "" /\ api.req = <<"1">>
    /\ txQueue["E1"] = <<>>
    /\ txQueue["E2"] # <<>>
    /\ macQueue["E1"] # <<>>
    /\ \E i \in Slots : /\ wk["tx"][i].pc = "fin" /\ wk["tx"][i].err = ""
                        /\ wk["tx"][i].item.devEUI = "E1"

\* C14: a queue changes only by a successful enqueue, which appends the
\* worker's item at the tail of its device's queue of its own kind, or (for
\* a payload queue) by a flush, which empties it: a handleTXPayloads worker
\* leaves the MAC-command queues alone, a handleTXMACPayloads worker the
\* payload queues, and a failed enqueue changes nothing.
C14_QueuesAreFIFO ==
    [][/\ \A i \in Slots :
             (wk["tx"][i].pc = "run" /\ wk'["tx"][i].pc # "run")
             => /\ macQueue' = macQueue
                /\ txQueue' = IF wk'["tx"][i].err = ""
                              THEN [txQueue EXCEPT ![wk["tx"][i].item.devEUI] =
                                        @ \o <<wk["tx"][i].item>>]
                              ELSE txQueue
       /\ \A i \in Slots :
             (wk["mac"][i].pc = "run" /\ wk'["mac"][i].pc # "run")
             => /\ txQueue' = txQueue
                /\ macQueue' = IF wk'["mac"][i].err = ""
                               THEN [macQueue EXCEPT ![wk["mac"][i].item.devEUI] =
                                         @ \o <<wk["mac"][i].item>>]
                               ELSE macQueue
       /\ macQueue' # macQueue
          => \E i \in Slots : wk["mac"][i].pc = "run" /\ wk'["mac"][i].pc = "fin"
       /\ txQueue' # txQueue
          => \/ \E i \in Slots : wk["tx"][i].pc = "run" /\ wk'["tx"][i].pc = "fin"
             \/ /\ used'.api # used.api
                /\ \E d \in DevEUIs : txQueue' = [txQueue EXCEPT ![d] = <<>>]]_vars

\* C14's case: two payloads and two MAC commands were queued for device E1
\* by concurrent workers, one payload's worker having finished before the
\* other's enqueue; each queue holds its own kind, both entries, in order.
C14_Witness ==
    /\ Len(txQueue["E1"]) = 2
    /\ Len(macQueue["E1"]) = 2
    /\ txQueue["E1"][1] # txQueue["E1"][2]
    /\ \A k \in 1 .. 2 : txQueue["E1"][k] \in TXPayloads
    /\ \A k \in 1 .. 2 : macQueue["E1"][k] \in MACPayloads
    /\ \E i \in Slots : /\ wk["tx"][i].pc = "fin"
                        /\ wk["tx"][i].item = txQueue["E1"][2]

----------------------------------------------------------------------------
(* Properties of NodeAPI over the device registry. *)

\* The three texts of a Create or Update request are hexadecimal texts of
\* the right length.
WellFormedRequest(req) ==
    WellFormedEUI(req.appEUI) /\ WellFormedEUI(req.devEUI) /\ WellFormedEUI(req.appKey)

\* C15: a Create or Update whose application identity, device identity or
\* root key text does not parse returns an error, makes no call to the
\* registry and leaves the stored nodes as they were; a request whose three
\* texts parse does reach the registry.
C15_UnparsedRequestTouchesNothing ==
    [][(used'.api # used.api /\ api'.op \in {"Create", "Update"})
       => /\ ~WellFormedRequest(api'.req)
             => api'.err # "" /\ api'.db = <<>> /\ nodes' = nodes
          /\ WellFormedRequest(api'.req) => api'.db # <<>>]_vars

\* C15's case: a Create for an unprovisioned device with a root key text
\* that is no hexadecimal text was refused; the device is still unknown.
C15_Witness ==
    /\ api.op = "Create"
    /\ api.req.appEUI = <<"1">> /\ api.req.devEUI = <<"2">> /\ api.req.appKey = <<"g">>
    /\ api.err # ""
    /\ nodes["E1"] # None
    /\ nodes["E2"] = None

\* C18: after a Create that succeeded, Get for the same device identity
\* returns the receive-delay, the RX1 data-rate offset and the channel-list
\* reference of the request.
C18_GetReturnsWhatWasCreated ==
    [][(used'.api # used.api /\ api'.op = "Create" /\ api'.err = "")
       => /\ GetCall(api'.req.devEUI, {}, nodes').err = ""
          /\ GetCall(api'.req.devEUI, {}, nodes').resp.rxDelay = api'.req.rxDelay
          /\ GetCall(api'.req.devEUI, {}, nodes').resp.rx1DROffset = api'.req.rx1DROffset
          /\ GetCall(api'.req.devEUI, {}, nodes').resp.channelListID
                = api'.req.channelListID]_vars

\* C19: a list response is returned only when both registry lookups of the
\* call succeeded.
C19_ListNeedsBothLookups ==
    (api.op \in {"List", "ListByAppEUI"} /\ api.err = "")
    => /\ Len(api.db) = 2
       /\ \A k \in DOMAIN api.db : api.db[k].ok

====
